---- MODULE Spec2Model ----
(***************************************************************************)
(* The Wikiquote ingestion pipeline of international-quotes:               *)
(*   - the entry point (bootstrap) that starts ingestion on an empty store *)
(*   - WikiquoteLoader.loadQuotesFromWikiDump and its sidecar files        *)
(*     ({dump}.checkpoint, {dump}.done)                                    *)
(*   - AuthorNameParser.normalizeAuthorName (classifier, with retries)     *)
(*   - CzechParser.parse and QuoteParser.parseQuote (scorer, with retries) *)
(* One action of the model is one stretch of code between two external     *)
(* events (a reply of the language model, a database round trip, a file    *)
(* system callback).                                                       *)
(***************************************************************************)
EXTENDS Integers, Sequences, FiniteSets, TLC

VARIABLES
  fsys,   \* the dump file, its two sidecar files, and whether the file
          \* system is one on which operations fail
  db,     \* the relational store: authors, translated names, quotes
  proc,   \* the process: position, pending asynchronous writes, start count
  run,    \* locals of the running loadQuotesFromWikiDump call
  call,   \* the current (or last) invocation of a language-model caller
  obs,    \* what the current run has done so far (observation only)
  lm      \* the language model: the answers it can give to parseQuote

vars == <<fsys, db, proc, run, call, obs, lm>>

---------------------------------------------------------------------------
(* Bounds of the model *)

MaxPages == 2     \* longest dump, in pages
MaxBoots == 2     \* application starts
MaxEdits == 1     \* times the operator replaces the dump file

---------------------------------------------------------------------------
(* Program constants *)

MAX_RETRIES == 3           \* AuthorNameParser / QuoteParser
MaxCandidateLength == 1000 \* QuoteParser.parseQuote: quote.length > 1_000
MaxQuoteLength == 500      \* CzechParser.parse: cleanQuote.length > 500
ScoreThreshold == 50       \* CzechParser.parse: score <= 50

\* CzechParser.forbiddenPagePrefixes (diacritics dropped: TLA+ strings are ASCII)
forbiddenPagePrefixes ==
  { "MediaWiki:", "Wikicitaty:", "Uzivatel:", "Kategorie:", "Diskuse:",
    "Diskuse ke kategorii:", "Diskuse s uzivatelem:", "Napoveda:",
    "Specialni:", "Dilo:" }

---------------------------------------------------------------------------
(* Values *)

\* A page title as the XML decoder yields it: fast-xml-parser turns a tag
\* value that reads as a number into a number, anything else stays a string.
\* ns is the leading "Namespace:" of the text ("" when there is none).
StrTitle(ns, name) == [kind |-> "string", ns |-> ns, name |-> name]
NumTitle(digits) == [kind |-> "number", ns |-> "", name |-> digits]

\* String(page.title): a number becomes its decimal text, a string is kept
StringOf(t) == [kind |-> "string", ns |-> t.ns, name |-> t.name]

\* JSON.stringify / JSON.parse of a title: a number is written bare and read
\* back as a number, a string is written quoted and read back as a string
JsonStringify(t) ==
  IF t.kind = "number" THEN <<"bare", t.ns, t.name>>
                       ELSE <<"quoted", t.ns, t.name>>
JsonParse(j) ==
  IF j[1] = "bare" THEN [kind |-> "number", ns |-> j[2], name |-> j[3]]
                   ELSE [kind |-> "string", ns |-> j[2], name |-> j[3]]

\* A text is known by where it comes from, its length and whether it is
\* blank (empty or white space only, i.e. trim() === "")
RawText(n) == [src |-> "raw", len |-> n, blank |-> FALSE]
CleanText(n, b) == [src |-> "clean", len |-> n, blank |-> b]
Absent == [src |-> "absent", len |-> 0, blank |-> TRUE]

\* WikiPage: title, redirect marker, and the candidate lines that
\* CzechParser.parse extracts from revision.text (non-empty list lines of
\* the section holding the quotes)
Page(t, r, c) == [title |-> t, redirect |-> r, cands |-> c]

PageCapek == Page(StrTitle("", "Karel Capek"), FALSE,
                  <<RawText(MaxCandidateLength), RawText(MaxCandidateLength + 1),
                    RawText(40)>>)
PageSeneca == Page(StrTitle("", "Seneca"), FALSE, << >>)
Page1984 == Page(NumTitle("1984"), FALSE, << >>)
PageAlias == Page(StrTitle("", "K. Capek"), TRUE, <<>>)
PageCategory == Page(StrTitle("Kategorie:", "Lide"), FALSE, <<RawText(40)>>)

PageUniverse == {PageCapek, PageSeneca, Page1984, PageAlias, PageCategory}

RECURSIVE SeqsUpTo(_, _)
SeqsUpTo(S, n) ==
  IF n = 0 THEN {<< >>}
  ELSE LET shorter == SeqsUpTo(S, n - 1)
       IN shorter \cup {Append(s, x) : s \in {t \in shorter : Len(t) = n - 1}, x \in S}

\* WikiDump: mediawiki.siteinfo.dbname (language code, then the project
\* name) and mediawiki.page; of the bytes of the file, those the checksum of
\* the code depends on (bytes 56..71, in the <mediawiki xmlns=...> tag that
\* opens the file: the end of the version of the export schema)
DbNames == {[lang |-> "cs", project |-> "wikiquote"]}
Heads == {"export-0.11", "export-0.10"}
DownloadedHead == {"export-0.11"}
\* The dumps: every dump of up to MaxPages pages, and the dump [A, B, C]
\* of three pages of which the pipeline works on the second and the third
ExamplePages == <<PageAlias, PageCapek, PageSeneca>>
Dumps ==
  [dbname : DbNames, head : DownloadedHead,
   page : (SeqsUpTo(PageUniverse, MaxPages) \ {<< >>}) \cup {ExamplePages}]

\* dbname.substring(0, 2)
LanguageOf(d) == d.dbname.lang

\* WikiquoteLoader.contentParsers: the languages with a content parser
contentParsers == {"cs"}

\* new XXHash3(readFileSync(realPath)).digest(): the file is given to the
\* constructor, which takes it as the secret, and digest() follows with no
\* update(), so the digest is that of the empty input under that secret.
\* XXH3 of the empty input reads bytes 56..71 of the secret and nothing
\* else: two dump files with the same head have the same checksum
Checksum(d) == <<"xxh3", d.head>>

\* The checkpoint sidecar: absent, created but still empty (opened for
\* writing, nothing written yet), or holding the JSON record
CpAbsent == [st |-> "absent"]
CpEmpty == [st |-> "empty"]
CpFull(sum, title) ==
  [st |-> "full", wikiDumpChecksum |-> sum, lastPageTitle |-> JsonStringify(title)]

\* The loaded checkpoint (JSON.parse of the sidecar), or undefined
NoCheckpoint == [defined |-> FALSE]
LoadedCheckpoint(f) ==
  [defined |-> TRUE, wikiDumpChecksum |-> f.wikiDumpChecksum,
   lastPageTitle |-> JsonParse(f.lastPageTitle)]

---------------------------------------------------------------------------
(* The language-model callers *)

\* The English name the language model gives for a title when it takes it for
\* a human name (temperature 0: one answer per input)
EnglishNameOf(title) ==
  IF title.name = "1984" THEN "George Orwell" ELSE title.name
\* Replies of the chat-completion call of AuthorNameParser: the call throws
\* (network or server error), or it resolves with message.content null, with
\* a text that is no JSON, or with {isHuman, englishName}
ClassifierReplies(title) ==
  {[k |-> "error"], [k |-> "null"], [k |-> "malformed"],
   [k |-> "json", isHuman |-> TRUE, englishName |-> EnglishNameOf(title)],
   [k |-> "json", isHuman |-> FALSE, englishName |-> ""]}

\* Replies of the chat-completion call of QuoteParser: as above, or cut at
\* the output limit (finish_reason "length"), or {score, cleanQuote}; the
\* code reads cleanQuote with ?. and ??, so a reply without it is a case
ScorerReplies(model) ==
  {[k |-> "error"], [k |-> "null"], [k |-> "malformed"], [k |-> "length"]}
  \cup [k : {"json"}, score : model.scores, cleanQuote : model.cleanQuotes]

\* A language model that scores at the threshold or just above it and
\* always gives a clean quote of the greatest length that is kept
PlainModel ==
  [scores |-> {ScoreThreshold, ScoreThreshold + 1},
   cleanQuotes |-> {CleanText(MaxQuoteLength, FALSE)}]
\* A language model that answers any score and any clean quote, or none
AnyModel ==
  [scores |-> {0, ScoreThreshold, ScoreThreshold + 1, 100, 101},
   cleanQuotes |-> {Absent, CleanText(0, TRUE), CleanText(1, TRUE),
                    CleanText(1, FALSE), CleanText(MaxQuoteLength, FALSE),
                    CleanText(MaxQuoteLength + 1, FALSE)}]

Undefined == [k |-> "undefined"]
Null == [k |-> "null"]

\* An invocation of a caller: the loop index i, the `response` variable, the
\* seconds waited, the calls made, and how it ended
NoCall ==
  [kind |-> "none", i |-> 0, response |-> Undefined, waited |-> 0,
   calls |-> 0, status |-> "idle", value |-> Null,
   error |-> "none"]
NewCall(kind) == [NoCall EXCEPT !.kind = kind, !.status = "pending"]

\* (a backoff that grows by one second an attempt)
BackoffLinear(i) == i + 1
\* 1000 * (i + 1) ** 2 milliseconds, in seconds
Backoff(i) == (i + 1) * (i + 1)

\* The invocation ends: with a value, or with an error
Returned(c, v) == [c EXCEPT !.status = "returned", !.value = v]
Threw(c, e) == [c EXCEPT !.status = "threw", !.error = e]

\* (the name is returned without a look at isHuman)
AfterClassifierLoopAnyName(c) ==
  IF c.response = Undefined THEN Threw(c, "NoResponse")
  ELSE IF c.response.k = "null" THEN Threw(c, "NoTextResponse")
  ELSE IF c.response.k = "malformed" THEN Threw(c, "SyntaxError")
  ELSE Returned(c, [k |-> "name", englishName |-> c.response.englishName])
\* AuthorNameParser.normalizeAuthorName after its loop: the checks of the
\* response, JSON.parse and the returned name (null for a non-human)
AfterClassifierLoop(c) ==
  IF c.response = Undefined THEN Threw(c, "NoResponse")
  ELSE IF c.response.k = "null" THEN Threw(c, "NoTextResponse")
  ELSE IF c.response.k = "malformed" THEN Threw(c, "SyntaxError")
  ELSE IF c.response.isHuman
       THEN Returned(c, [k |-> "name", englishName |-> c.response.englishName])
       ELSE Returned(c, Null)

\* One pass of the loop of normalizeAuthorName, the reply being o: the
\* response is assigned when create() resolves; a null content is thrown
\* and caught like an error of create(); the catch waits; a text breaks
ClassifierAttempt(c, o) ==
  LET made == [c EXCEPT !.calls = @ + 1,
                        !.response = IF o.k = "error" THEN @ ELSE o]
  IN IF o.k \in {"error", "null"}
     THEN LET waitedC == [made EXCEPT !.waited = @ + Backoff(c.i), !.i = @ + 1]
          IN IF waitedC.i < MAX_RETRIES THEN waitedC
             ELSE AfterClassifierLoop(waitedC)
     ELSE AfterClassifierLoop(made)

\* (a call that got no answer is answered with score 0)
AfterScorerLoopSwallowing(c, parsedResponse) ==
  IF c.response = Undefined \/ parsedResponse = Undefined
  THEN Returned(c, [k |-> "parsed", score |-> 0, cleanQuote |-> CleanText(0, TRUE)])
  ELSE Returned(c, [k |-> "parsed", score |-> parsedResponse.score,
                    cleanQuote |-> parsedResponse.cleanQuote])
\* QuoteParser.parseQuote after its loop
AfterScorerLoop(c, parsedResponse) ==
  IF c.response = Undefined THEN Threw(c, "NoResponse")
  ELSE IF parsedResponse = Undefined THEN Threw(c, "NoTextResponse")
  ELSE Returned(c, [k |-> "parsed", score |-> parsedResponse.score,
                    cleanQuote |-> parsedResponse.cleanQuote])

\* (a reply cut at the output limit is caught and waited on like an error)
ScorerAttemptRetryingLength(c, o) ==
  LET made == [c EXCEPT !.calls = @ + 1,
                        !.response = IF o.k = "error" THEN @ ELSE o]
  IN IF o.k = "json"
     THEN AfterScorerLoop(made, [score |-> o.score, cleanQuote |-> o.cleanQuote])
     ELSE LET waitedC == [made EXCEPT !.waited = @ + Backoff(c.i), !.i = @ + 1]
          IN IF waitedC.i < MAX_RETRIES THEN waitedC
             ELSE AfterScorerLoop(waitedC, Undefined)
\* One pass of the loop of parseQuote, the reply being o: a reply cut at the
\* output limit breaks with score 0; a null content and a text that
\* JSON.parse rejects are thrown inside the try and caught like an error of
\* create(); the catch waits
ScorerAttempt(c, o) ==
  LET made == [c EXCEPT !.calls = @ + 1,
                        !.response = IF o.k = "error" THEN @ ELSE o]
  IN IF o.k = "length"
     THEN AfterScorerLoop(made, [score |-> 0, cleanQuote |-> CleanText(0, TRUE)])
     ELSE IF o.k = "json"
     THEN AfterScorerLoop(made, [score |-> o.score, cleanQuote |-> o.cleanQuote])
     ELSE LET waitedC == [made EXCEPT !.waited = @ + Backoff(c.i), !.i = @ + 1]
          IN IF waitedC.i < MAX_RETRIES THEN waitedC
             ELSE AfterScorerLoop(waitedC, Undefined)

\* (>= for >: a quote of 1000 characters is not sent either)
TooLongToScoreFrom1000(quote) == quote.len >= MaxCandidateLength
\* QuoteParser.parseQuote before its loop: a quote of more than 1000
\* characters is answered with score 0 and no call
TooLongToScore(quote) == quote.len > MaxCandidateLength
SkippedParse(c) ==
  Returned(c, [k |-> "parsed", score |-> 0, cleanQuote |-> CleanText(0, TRUE)])

---------------------------------------------------------------------------
(* CzechParser *)

\* (no title is forbidden)
NoForbiddenPageName(pageTitle) == FALSE
\* CzechParser.isForbiddenPageName: the regular expression
\* ^(prefix|prefix|...).* tested on the title (a number is tested as text)
isForbiddenPageName(pageTitle) == StringOf(pageTitle).ns \in forbiddenPagePrefixes

\* CzechParser.parse, the two `continue`s on a scored candidate:
\* score <= 50 || cleanQuote?.trim() === "", then (cleanQuote?.length ?? 0) > 500
NotGoodEnough(parsedQuote) ==
  \/ parsedQuote.score <= ScoreThreshold
  \/ (parsedQuote.cleanQuote # Absent /\ parsedQuote.cleanQuote.blank)
TooLongQuote(parsedQuote) ==
  (IF parsedQuote.cleanQuote = Absent THEN 0 ELSE parsedQuote.cleanQuote.len)
    > MaxQuoteLength
Keeps(parsedQuote) == ~NotGoodEnough(parsedQuote) /\ ~TooLongQuote(parsedQuote)

\* new Quote(cleanQuote ?? quoteCandidateText, pageUrl, score, author, language);
\* origin tells which candidate of which page of the dump it was made from
NewQuote(parsedQuote, candidate, page, author, language, origin) ==
  [text |-> IF parsedQuote.cleanQuote = Absent THEN candidate
            ELSE parsedQuote.cleanQuote,
   source |-> <<language, StringOf(page.title)>>,
   score |-> parsedQuote.score,
   author |-> author, language |-> language, origin |-> origin]

---------------------------------------------------------------------------
(* State *)

NoRun ==
  [checkpoint |-> NoCheckpoint, language |-> "", idx |-> 0,
   skippingMode |-> FALSE, name |-> "", author |-> 0, j |-> 0,
   quotes |-> << >>, error |-> "none"]

\* What is kept of the run before, when it failed on a page: the pages it
\* worked on, the page it failed on, the checkpoint it issued, and how many
\* quotes of that page CzechParser.parse had in its list when it failed
NoRunBefore == [visited |-> {}, failedAt |-> 0, issuedCp |-> CpAbsent, kept |-> 0]
RunBefore(o, r) ==
  IF o.outcome = "failed"
  THEN [visited |-> o.visited, failedAt |-> o.failedAt, issuedCp |-> o.issuedCp,
        kept |-> Len(r.quotes)]
  ELSE NoRunBefore

NoObs ==
  [outcome |-> "none", doneAtStart |-> FALSE, cpAtStart |-> CpAbsent,
   decoded |-> FALSE, skipped |-> {}, visited |-> {},
   classified |-> FALSE, scored |-> FALSE, persisted |-> FALSE,
   pageError |-> "none", failedAt |-> 0, issuedCp |-> CpAbsent,
   issuedDone |-> FALSE, before |-> NoRunBefore]

\* A pending fs.writeFile: the file, the data, and whether the file has
\* been opened (created or truncated) yet
CheckpointWrite(data) == [file |-> "checkpoint", data |-> data, opened |-> FALSE]
DoneWrite == [file |-> "done", data |-> CpAbsent, opened |-> FALSE]

\* The sidecar files an earlier life of the application, or the operator, may
\* have left beside dump d: no checkpoint, or the checkpoint of a run that
\* failed on one of its pages; a done marker or none
LeftCheckpoints(d) ==
  {CpAbsent} \cup {CpFull(Checksum(d), d.page[i].title) : i \in 1..Len(d.page)}

\* The rows of the language table: the languages the application serves
StoredLanguages == {"cs", "en"}
\* The abbreviations a language can have here
Abbreviations == {"cs", "en", "de"}

\* Everything but the files and the language model; the process record
\* keeps whether the first start finds neither sidecar beside the dump
InitRest ==
  /\ db = [authors |-> << >>, names |-> << >>, quotes |-> << >>,
           languages |-> StoredLanguages]
  /\ proc = [pc |-> "down", pending |-> {}, boots |-> 0, edits |-> 0,
             firstStartClean |-> (fsys.cp = CpAbsent /\ ~fsys.done)]
  /\ run = NoRun
  /\ call = NoCall
  /\ obs = NoObs

Init ==
  /\ \E d \in Dumps :
       fsys \in [dump : {d}, cp : LeftCheckpoints(d), done : BOOLEAN,
                 faulty : {FALSE}]
  /\ lm = PlainModel
  /\ InitRest

\* The scorer under a language model that answers anything, on the dumps
\* that hold the page with candidates
ScorerDumps ==
  [dbname : DbNames, head : DownloadedHead,
   page : {<<PageCapek, PageSeneca>>, <<PageAlias, PageCapek>>}]
InitScorer ==
  /\ \E d \in ScorerDumps :
       fsys \in [dump : {d}, cp : LeftCheckpoints(d), done : {FALSE},
                 faulty : {FALSE}]
  /\ lm = AnyModel
  /\ InitRest

\* Dumps of other languages: one that is in the language table and has no
\* content parser, and one that is not in the table
LanguageDbNames == [lang : Abbreviations, project : {"wikiquote"}]

\* The pipeline on a file system on which a read of the dump file and a
\* write of a sidecar can fail, on dumps of any language, with the sidecars
\* an earlier life may have left
InitFaults ==
  /\ \E d \in [dbname : LanguageDbNames, head : DownloadedHead,
                page : {<<PageCapek, PageSeneca>>, <<PageAlias, PageCapek>>}] :
       fsys \in [dump : {d}, cp : LeftCheckpoints(d), done : BOOLEAN,
                 faulty : {TRUE}]
  /\ lm = PlainModel
  /\ InitRest

\* The pipeline on dumps of other languages
InitLanguages ==
  /\ \E d \in [dbname : LanguageDbNames, head : DownloadedHead,
                page : {<<PageCapek, PageSeneca>>, <<PageAlias, PageCapek>>}] :
       fsys \in [dump : {d}, cp : LeftCheckpoints(d), done : {FALSE},
                 faulty : {FALSE}]
  /\ lm = PlainModel
  /\ InitRest

pages == fsys.dump.page
page == pages[run.idx]

\* new XMLParser() has no isArray option: mediawiki.page is an array when
\* the dump holds two <page> elements or more, and the object of the page
\* when it holds one, which `for...of` cannot iterate
PageListIsArray == Len(pages) >= 2

---------------------------------------------------------------------------
(* The entry point *)

\* QuoteService.count() === 0
StoreIsEmpty == Len(db.quotes) = 0

\* The start of the application up to the call of loadQuotesFromWikiDump:
\* the dump is loaded only when the store holds no quote
Bootstrap ==
  /\ proc.pc = "down"
  /\ proc.boots < MaxBoots
  /\ proc' = [proc EXCEPT !.boots = @ + 1,
                          !.pc = IF StoreIsEmpty THEN "load" ELSE "serving"]
  /\ run' = NoRun
  /\ call' = NoCall
  /\ obs' = [NoObs EXCEPT !.outcome = IF StoreIsEmpty THEN "running" ELSE "none",
                          !.doneAtStart = fsys.done /\ StoreIsEmpty,
                          !.cpAtStart = IF StoreIsEmpty THEN fsys.cp ELSE CpAbsent,
                          !.before = obs.before]
  /\ UNCHANGED <<fsys, db, lm>>

\* The catch of the entry point: process.exit(1); writes that have not
\* completed are lost
ProcessExit ==
  /\ proc.pc = "failing"
  /\ proc' = [proc EXCEPT !.pc = "down", !.pending = {}]
  /\ run' = NoRun
  /\ call' = NoCall
  /\ obs' = [NoObs EXCEPT !.before = RunBefore(obs, run)]
  /\ UNCHANGED <<fsys, db, lm>>

\* The operator stops the serving application
Shutdown ==
  /\ proc.pc = "serving"
  /\ proc.pending = {}
  /\ proc' = [proc EXCEPT !.pc = "down"]
  /\ run' = NoRun
  /\ call' = NoCall
  /\ obs' = NoObs
  /\ UNCHANGED <<fsys, db, lm>>

\* The operator replaces the dump file while the application is down and a
\* checkpoint is left: by a dump whose last page is another one, or by a
\* dump of the same pages exported under another version of the schema
EditDump ==
  /\ proc.pc = "down"
  /\ proc.edits < MaxEdits
  /\ fsys.cp # CpAbsent
  /\ \/ \E p \in PageUniverse \ {pages[Len(pages)]} :
          fsys' = [fsys EXCEPT !.dump.page[Len(pages)] = p]
     \/ \E h \in Heads \ {fsys.dump.head} :
          fsys' = [fsys EXCEPT !.dump.head = h]
  /\ proc' = [proc EXCEPT !.edits = @ + 1]
  /\ UNCHANGED <<db, run, call, obs, lm>>

\* LanguageService.save: languageRepository.save(language). The primary
\* key of the table is the abbreviation: a language that has no row gets
\* one, and the row of a language that has one is updated, which leaves the
\* set of stored abbreviations as it is (no step of the model). Nothing in
\* the application calls it; the caller is whoever fills the table, at any
\* time
LanguageServiceSave ==
  /\ \E abbreviation \in Abbreviations \ db.languages :
       db' = [db EXCEPT !.languages = @ \cup {abbreviation}]
  /\ UNCHANGED <<fsys, proc, run, call, obs, lm>>

---------------------------------------------------------------------------
(* The file system completing fs.writeFile *)

\* The file is opened with flag "w": created, or truncated
FsOpen ==
  \E w \in proc.pending :
    /\ ~w.opened
    /\ fsys' = IF w.file = "checkpoint" THEN [fsys EXCEPT !.cp = CpEmpty]
               ELSE [fsys EXCEPT !.done = TRUE]
    /\ proc' = [proc EXCEPT !.pending = (@ \ {w}) \cup {[w EXCEPT !.opened = TRUE]}]
    /\ UNCHANGED <<db, run, call, obs, lm>>

\* The data is written and the callback runs without error. The write is
\* issued from the callback of the open, which runs in a later turn of the
\* event loop: there is none between the catch of the page loop, its throw
\* and process.exit(1) of the entry point
FsWrite ==
  \E w \in proc.pending :
    /\ w.opened
    /\ proc.pc # "failing"
    /\ fsys' = IF w.file = "checkpoint" THEN [fsys EXCEPT !.cp = w.data]
               ELSE fsys
    /\ proc' = [proc EXCEPT !.pending = @ \ {w}]
    /\ UNCHANGED <<db, run, call, obs, lm>>

\* The write fails (open, write or close reports an error): the callback
\* logs the error and nothing else is done
FsError ==
  /\ fsys.faulty
  /\ \E w \in proc.pending :
       proc' = [proc EXCEPT !.pending = @ \ {w}]
  /\ UNCHANGED <<fsys, db, run, call, obs, lm>>

---------------------------------------------------------------------------
(* WikiquoteLoader.loadQuotesFromWikiDump *)

\* existsSync(`${realPath}.checkpoint`)
CheckpointExists == fsys.cp # CpAbsent
\* (the done marker counts only when no checkpoint is left)
DoneExistsAlone == fsys.done /\ ~CheckpointExists
\* (the done marker is not looked at)
DoneNeverExists == FALSE
\* existsSync(`${realPath}.done`)
DoneExists == fsys.done
\* (the checksum of the checkpoint is compared with itself)
ChecksumOfCheckpointOnly == fsys.cp.wikiDumpChecksum # fsys.cp.wikiDumpChecksum
\* wikiDumpChecksum !== checkpoint.wikiDumpChecksum
ChecksumDiffers == Checksum(fsys.dump) # fsys.cp.wikiDumpChecksum

\* An error e thrown before the page loop, outside its try, the dump being
\* decoded by then or not: it goes to the caller as it is and no sidecar is
\* touched
ThrowBeforeLoop(e, decoded) ==
  /\ proc' = [proc EXCEPT !.pc = "failing"]
  /\ run' = [run EXCEPT !.error = e]
  /\ obs' = [obs EXCEPT !.outcome = "threw", !.decoded = decoded]

\* From the call to the read of the dump: the done marker, the checkpoint
\* and its checksum. JSON.parse of an empty sidecar throws outside the try
\* of the page loop, so the error goes to the caller as it is; so does the
\* error of a readFileSync (of the checkpoint, of the dump for its checksum)
\* that fails.
LoadStart ==
  /\ proc.pc = "load"
  /\ UNCHANGED <<fsys, db, call, lm>>
  /\ \/ IF DoneExists
        THEN /\ proc' = [proc EXCEPT !.pc = "serving"]
             /\ obs' = [obs EXCEPT !.outcome = "alreadyDone"]
             /\ run' = run
        ELSE IF ~CheckpointExists
        THEN /\ proc' = [proc EXCEPT !.pc = "decode"]
             /\ UNCHANGED <<run, obs>>
        ELSE IF fsys.cp = CpEmpty
        THEN ThrowBeforeLoop("SyntaxError", FALSE)
        ELSE IF ChecksumDiffers
        THEN /\ proc' = [proc EXCEPT !.pc = "serving"]
             /\ obs' = [obs EXCEPT !.outcome = "stale"]
             /\ run' = run
        ELSE /\ proc' = [proc EXCEPT !.pc = "decode"]
             /\ run' = [run EXCEPT !.checkpoint = LoadedCheckpoint(fsys.cp)]
             /\ obs' = obs
     \/ /\ fsys.faulty
        /\ ~DoneExists /\ CheckpointExists
        /\ ThrowBeforeLoop("ReadError", FALSE)

\* The lookup of the language finding a row for any abbreviation
HasLanguageAlways(abbreviation) == TRUE

\* LanguageService.fetchByAbbreviation finds a row (it throws NotFoundError
\* when there is none)
HasLanguage(abbreviation) == abbreviation \in db.languages

\* readFileSync and XMLParser.parse of the dump, the language of the dump
\* fetched from the store (outside the try of the page loop), and the
\* locals of the page loop. The read can fail (ReadError), and what is read
\* can be without the structure mediawiki.siteinfo.dbname (TypeError); a
\* language without a row in the store is a NotFoundError. `for...of` over
\* mediawiki.page, outside the try of the loop body, throws a TypeError
\* when the dump holds one page.
Decode ==
  /\ proc.pc = "decode"
  /\ \/ IF ~HasLanguage(LanguageOf(fsys.dump))
        THEN ThrowBeforeLoop("NotFoundError", TRUE)
        ELSE IF ~PageListIsArray
        THEN ThrowBeforeLoop("TypeError", TRUE)
        ELSE /\ proc' = [proc EXCEPT !.pc = "page"]
             /\ run' = [run EXCEPT !.language = LanguageOf(fsys.dump), !.idx = 1,
                                   !.skippingMode = run.checkpoint.defined]
             /\ obs' = [obs EXCEPT !.decoded = TRUE]
     \/ /\ fsys.faulty
        /\ \/ ThrowBeforeLoop("ReadError", FALSE)
           \/ ThrowBeforeLoop("TypeError", TRUE)
  /\ UNCHANGED <<fsys, db, call, lm>>

\* (no page is passed over: a resumed run starts at the first page again)
SkipsPageNever(pg, skippingMode, checkpoint) == FALSE
\* The two tests at the head of the loop body, on pageTitle = String(page.title)
SkipsPage(pg, skippingMode, checkpoint) ==
  skippingMode /\ StringOf(pg.title) # checkpoint.lastPageTitle
ResumesAt(pg, skippingMode, checkpoint) ==
  skippingMode /\ StringOf(pg.title) = checkpoint.lastPageTitle

\* (the title of the page before, the last one that was completed)
CheckpointOfCompleted(pg) ==
  CpFull(Checksum(fsys.dump),
         IF run.idx > 1 THEN pages[run.idx - 1].title ELSE pg.title)
\* The checkpoint the catch writes: the checksum of the dump file as it is
\* now, and page.title
CheckpointOf(pg) == CpFull(Checksum(fsys.dump), pg.title)

\* `continue`, and the end of the loop body: on to the next page
NextPage(r) ==
  [r EXCEPT !.idx = @ + 1, !.name = "", !.author = 0, !.j = 0, !.quotes = << >>]

\* The catch of the page loop, error e thrown while o2 had been done:
\* writeFile of the checkpoint is started and not awaited, e is rethrown.
\* readFileSync(realPath), for the checksum, is called in the catch block
\* itself: when it throws, its error leaves the block in place of e and
\* writeFile is not reached.
CatchPageError(e, o2) ==
  \/ /\ proc' = [proc EXCEPT !.pc = "failing",
                             !.pending = @ \cup {CheckpointWrite(CheckpointOf(page))}]
     /\ run' = [run EXCEPT !.error = e]
     /\ obs' = [o2 EXCEPT !.outcome = "failed", !.pageError = e,
                          !.failedAt = run.idx, !.issuedCp = CheckpointOf(page)]
  \/ /\ fsys.faulty
     /\ proc' = [proc EXCEPT !.pc = "failing"]
     /\ run' = [run EXCEPT !.error = "ReadError"]
     /\ obs' = [o2 EXCEPT !.outcome = "failed", !.pageError = e,
                          !.failedAt = run.idx]

\* A page passed over while the checkpointed page has not been seen
SkipPage ==
  /\ proc.pc = "page"
  /\ run.idx <= Len(pages)
  /\ SkipsPage(page, run.skippingMode, run.checkpoint)
  /\ run' = NextPage(run)
  /\ obs' = [obs EXCEPT !.skipped = @ \cup {run.idx}]
  /\ UNCHANGED <<fsys, db, proc, call, lm>>

\* The loop body up to the call of the classifier: the redirect test, the
\* parser of the language, the forbidden prefixes
PageStep ==
  /\ proc.pc = "page"
  /\ run.idx <= Len(pages)
  /\ ~SkipsPage(page, run.skippingMode, run.checkpoint)
  /\ UNCHANGED <<fsys, db, lm>>
  /\ LET o2 == [obs EXCEPT !.visited = @ \cup {run.idx}]
         r2 == [run EXCEPT !.skippingMode = FALSE]
     IN IF page.redirect
        THEN run' = NextPage(r2) /\ obs' = o2 /\ call' = NoCall /\ proc' = proc
        ELSE IF run.language \notin contentParsers
        THEN CatchPageError("TypeError", o2) /\ call' = call
        ELSE IF isForbiddenPageName(page.title)
        THEN run' = NextPage(r2) /\ obs' = o2 /\ call' = NoCall /\ proc' = proc
        ELSE /\ proc' = [proc EXCEPT !.pc = "classify"]
             /\ run' = r2
             /\ obs' = o2
             /\ call' = NewCall("classifier")

\* A reply of the language model to normalizeAuthorName, and what follows
\* it: the next attempt, the error, the skipped page (parsePage returns []
\* and saveAll([]) saves nothing), or the human name
ClassifierReply ==
  /\ proc.pc = "classify"
  /\ UNCHANGED <<fsys, db, lm>>
  /\ \E o \in ClassifierReplies(page.title) :
       LET c2 == ClassifierAttempt(call, o)
           o2 == [obs EXCEPT !.classified = TRUE]
       IN /\ call' = c2
          /\ IF c2.status = "pending"
             THEN obs' = o2 /\ UNCHANGED <<proc, run>>
             ELSE IF c2.status = "threw"
             THEN CatchPageError(c2.error, o2)
             ELSE IF c2.value = Null
             THEN /\ proc' = [proc EXCEPT !.pc = "page"]
                  /\ run' = NextPage(run)
                  /\ obs' = [o2 EXCEPT !.persisted = TRUE]
             ELSE /\ proc' = [proc EXCEPT !.pc = "author"]
                  /\ run' = [run EXCEPT !.name = c2.value.englishName]
                  /\ obs' = o2

\* (the lookup finds no author, whatever the store holds)
HasAuthorNever(englishFullName) == FALSE
\* AuthorService.fetchByEnglishFullName: the id of the author of that name
HasAuthor(englishFullName) ==
  \E a \in 1..Len(db.authors) : db.authors[a] = englishFullName
AuthorId(englishFullName) ==
  CHOOSE a \in 1..Len(db.authors) :
    /\ db.authors[a] = englishFullName
    /\ \A b \in 1..(a - 1) : db.authors[b] # englishFullName

\* AuthorService.addTranslatedFullName: a new TranslatedAuthorName(fullName,
\* author, language) is saved. The primary key of the table is (authorId,
\* languageAbbreviation): save inserts the row when the author has no name
\* in the language and updates the fullName of the row that is there
\* otherwise. The save of the author that follows changes no row.
addTranslatedFullName(names, author, language, fullName) ==
  LET row == [author |-> author, language |-> language, fullName |-> fullName]
      same(n) == names[n].author = author /\ names[n].language = language
  IN IF \E n \in 1..Len(names) : same(n)
     THEN [n \in 1..Len(names) |-> IF same(n) THEN row ELSE names[n]]
     ELSE Append(names, row)

\* parseAuthor after the classifier: the author is fetched, or saved when
\* there is none of that name; the title of the page is added as its name
\* in the language of the dump; then CzechParser.parse starts on the page
AuthorStep ==
  /\ proc.pc = "author"
  /\ LET known == HasAuthor(run.name)
         authors2 == IF known THEN db.authors ELSE Append(db.authors, run.name)
         id == IF known THEN AuthorId(run.name) ELSE Len(authors2)
     IN /\ db' = [db EXCEPT !.authors = authors2,
                            !.names = addTranslatedFullName(@, id, run.language,
                                                            page.title)]
        /\ run' = [run EXCEPT !.author = id, !.j = 1, !.quotes = << >>]
        /\ obs' = [obs EXCEPT !.persisted = TRUE]
  /\ proc' = [proc EXCEPT !.pc = "cand"]
  /\ UNCHANGED <<fsys, call, lm>>

\* (the quote is saved as soon as it is kept, and is left out of the list)
KeepQuoteSavingAtOnce(stored, list, quote) ==
  [stored |-> Append(stored, quote), list |-> list]
\* quotes.push(quote) in CzechParser.parse: the quote joins the list that
\* parse returns, and the store is not written
KeepQuote(stored, list, quote) ==
  [stored |-> stored, list |-> Append(list, quote)]

\* The quote CzechParser.parse makes of candidate r.j
QuoteOfCandidate(r, parsedQuote) ==
  NewQuote(parsedQuote, page.cands[r.j], page, r.author, r.language, <<r.idx, r.j>>)

\* CzechParser.parse on the answer of parseQuote to candidate run.j: the
\* locals of the run after it, and the quotes in the store after it
AfterParse(r, parsedQuote) ==
  [r EXCEPT !.j = @ + 1,
            !.quotes = IF Keeps(parsedQuote)
                       THEN KeepQuote(db.quotes, @, QuoteOfCandidate(r, parsedQuote)).list
                       ELSE @]
StoredAfterParse(r, parsedQuote) ==
  IF Keeps(parsedQuote)
  THEN KeepQuote(db.quotes, r.quotes, QuoteOfCandidate(r, parsedQuote)).stored
  ELSE db.quotes

\* What QuoteService.saveAll is given at the end of the loop body
QuotesToSave(r) == r.quotes

\* The next candidate of the page: parseQuote answers a candidate that is
\* too long itself, calls the language model for any other; after the last
\* candidate parsePage returns and saveAll saves the quotes of the page
CandStep ==
  /\ proc.pc = "cand"
  /\ UNCHANGED <<fsys, lm>>
  /\ IF run.j > Len(page.cands)
     THEN /\ db' = [db EXCEPT !.quotes = @ \o QuotesToSave(run)]
          /\ proc' = [proc EXCEPT !.pc = "page"]
          /\ run' = NextPage(run)
          /\ obs' = [obs EXCEPT !.persisted = TRUE]
          /\ call' = NoCall
     ELSE IF TooLongToScore(page.cands[run.j])
     THEN /\ call' = SkippedParse(NewCall("scorer"))
          /\ run' = AfterParse(run, call'.value)
          /\ db' = [db EXCEPT !.quotes = StoredAfterParse(run, call'.value)]
          /\ UNCHANGED <<proc, obs>>
     ELSE /\ call' = NewCall("scorer")
          /\ proc' = [proc EXCEPT !.pc = "score"]
          /\ UNCHANGED <<db, run, obs>>

\* A reply of the language model to parseQuote, and what follows it
ScorerReply ==
  /\ proc.pc = "score"
  /\ UNCHANGED <<fsys, lm>>
  /\ \E o \in ScorerReplies(lm) :
       LET c2 == ScorerAttempt(call, o)
           o2 == [obs EXCEPT !.scored = TRUE]
       IN /\ call' = c2
          /\ IF c2.status = "pending"
             THEN obs' = o2 /\ UNCHANGED <<db, proc, run>>
             ELSE IF c2.status = "threw"
             THEN CatchPageError(c2.error, o2) /\ db' = db
             ELSE /\ proc' = [proc EXCEPT !.pc = "cand"]
                  /\ run' = AfterParse(run, c2.value)
                  /\ db' = [db EXCEPT !.quotes = StoredAfterParse(run, c2.value)]
                  /\ obs' = o2

\* (the checkpoint is left where it is)
CheckpointKept(f, checkpoint) == f
\* if (checkpoint !== undefined) unlinkSync(`${realPath}.checkpoint`)
CheckpointRemoved(f, checkpoint) ==
  IF checkpoint.defined THEN [f EXCEPT !.cp = CpAbsent] ELSE f

\* After the loop: the checkpoint is unlinked if one was loaded, writeFile
\* of the done marker is started and not awaited, and the call returns.
\* unlinkSync is outside any try: when it throws, its error goes to the
\* caller, the checkpoint stays and writeFile of the done marker is not
\* reached
Finalize ==
  /\ proc.pc = "page"
  /\ run.idx > Len(pages)
  /\ \/ /\ fsys' = CheckpointRemoved(fsys, run.checkpoint)
        /\ proc' = [proc EXCEPT !.pc = "serving", !.pending = @ \cup {DoneWrite}]
        /\ obs' = [obs EXCEPT !.outcome = "success", !.issuedDone = TRUE]
        /\ run' = run
     \/ /\ fsys.faulty
        /\ run.checkpoint.defined
        /\ fsys' = fsys
        /\ proc' = [proc EXCEPT !.pc = "failing"]
        /\ obs' = [obs EXCEPT !.outcome = "threwAfterLoop"]
        /\ run' = [run EXCEPT !.error = "UnlinkError"]
  /\ call' = NoCall
  /\ UNCHANGED <<db, lm>>

---------------------------------------------------------------------------

Next ==
  \/ Bootstrap \/ ProcessExit \/ Shutdown \/ EditDump \/ LanguageServiceSave
  \/ FsOpen \/ FsWrite
  \/ LoadStart \/ Decode \/ SkipPage \/ PageStep \/ ClassifierReply
  \/ AuthorStep \/ CandStep \/ ScorerReply \/ Finalize

Spec == Init /\ [][Next]_vars

SpecScorer == InitScorer /\ [][Next]_vars

SpecLanguages == InitLanguages /\ [][Next]_vars

NextFaults == Next \/ FsError
SpecFaults == InitFaults /\ [][NextFaults]_vars

\* The pipeline with a dump file that nobody replaces, and with the process and
\* the file system never stopping while there is a step to take: the
\* application is started again until the starts are used up, a started
\* run goes on to its return or its throw, and a write that was started is
\* completed unless the process exits first
NextLive ==
  \/ Bootstrap \/ ProcessExit \/ Shutdown \/ LanguageServiceSave
  \/ FsOpen \/ FsWrite
  \/ LoadStart \/ Decode \/ SkipPage \/ PageStep \/ ClassifierReply
  \/ AuthorStep \/ CandStep \/ ScorerReply \/ Finalize
SpecLive == Init /\ [][NextLive]_vars /\ WF_vars(NextLive)

---------------------------------------------------------------------------
(* Properties *)

InRun == obs.outcome # "none"
NoPageTouched ==
  /\ ~obs.decoded
  /\ obs.visited = {} /\ obs.skipped = {}
  /\ ~obs.classified /\ ~obs.scored /\ ~obs.persisted

\* C1: a call of loadQuotesFromWikiDump that finds the done marker returns
\* without decoding the dump, without touching a page and without a call of
\* the classifier, the scorer or the store, a checkpoint being there or not
C1_DoneMarkerStopsRun ==
  (InRun /\ obs.doneAtStart) =>
     /\ NoPageTouched
     /\ proc.pc \in {"load", "serving"}
     /\ proc.pending = {}
C1_Witness ==
  /\ obs.outcome = "alreadyDone"
  /\ obs.doneAtStart
  /\ obs.cpAtStart.st = "full"
  /\ proc.pc = "serving"

\* C2: a call that finds a checkpoint whose checksum is not that of the dump
\* file stops before decoding the dump: no page, no call of the classifier,
\* the scorer or the store, the checkpoint as it was, and no done marker
StaleAtStart ==
  /\ InRun
  /\ ~obs.doneAtStart
  /\ obs.cpAtStart.st = "full"
  /\ obs.cpAtStart.wikiDumpChecksum # Checksum(fsys.dump)
C2_StaleCheckpointStopsRun ==
  StaleAtStart =>
     /\ NoPageTouched
     /\ proc.pc \in {"load", "serving"}
     /\ fsys.cp = obs.cpAtStart
     /\ ~fsys.done
     /\ proc.pending = {}
C2_Witness == StaleAtStart /\ obs.outcome = "stale" /\ proc.pc = "serving"

\* The first page of the dump whose title is the lastPageTitle of the loaded
\* checkpoint (0 when there is none)
ResumeIndex ==
  LET hits == {i \in 1..Len(pages) : pages[i].title = run.checkpoint.lastPageTitle}
  IN IF hits = {} THEN 0 ELSE CHOOSE i \in hits : \A h \in hits : i <= h

\* C3: in a run that loaded a checkpoint naming page k, every page before k
\* is passed over (never worked on, so no call is made for it) and page k
\* and every page after it is worked on
C3_ResumeAtCheckpointedPage ==
  (run.checkpoint.defined /\ ResumeIndex > 0 /\ run.idx >= 1) =>
     \A i \in 1..Len(pages) :
       /\ (i < run.idx /\ i < ResumeIndex) => (i \in obs.skipped /\ i \notin obs.visited)
       /\ (i < run.idx /\ i >= ResumeIndex) => (i \in obs.visited /\ i \notin obs.skipped)

\* C4: when the work on a page throws, no later page is worked on, the
\* checkpoint that is written names that page and carries the checksum of
\* the dump file, no done marker is written, and the caller gets the error
\* that was thrown
C4_PageErrorWritesCheckpoint ==
  obs.outcome = "failed" =>
     /\ proc.pc = "failing"
     /\ run.idx \in obs.visited
     /\ \A i \in obs.visited : i <= run.idx
     /\ obs.issuedCp.st = "full"
     /\ obs.issuedCp.wikiDumpChecksum = Checksum(fsys.dump)
     /\ JsonParse(obs.issuedCp.lastPageTitle) = pages[run.idx].title
     /\ \E w \in proc.pending : w.file = "checkpoint" /\ w.data = obs.issuedCp
     /\ ~obs.issuedDone
     /\ \A w \in proc.pending : w.file # "done"
     /\ run.error # "none"
     /\ call.status = "threw" => run.error = call.error
C4_Witness ==
  /\ obs.outcome = "failed"
  /\ run.idx = 2
  /\ call.kind = "scorer" /\ call.status = "threw" /\ call.calls = MAX_RETRIES
  /\ obs.cpAtStart = CpAbsent /\ fsys.cp = CpEmpty
  /\ \E w \in proc.pending : w.opened /\ w.data = obs.issuedCp

\* C5: when the page loop ends without an error the checkpoint is gone, the
\* write of the done marker has been started, and once it has completed the
\* done marker is there
C5_SuccessLeavesDoneMarker ==
  obs.outcome = "success" =>
     /\ proc.pc = "serving"
     /\ fsys.cp = CpAbsent
     /\ obs.issuedDone
     /\ \A w \in proc.pending : w.file = "done"
     /\ proc.pending = {} => fsys.done
C5_Witness ==
  /\ obs.outcome = "success"
  /\ obs.cpAtStart.st = "full"
  /\ proc.pending = {}
  /\ fsys.done /\ fsys.cp = CpAbsent

\* The dump file is the one the application was first started on
DumpNeverReplaced == proc.edits = 0

\* The run resumed from the checkpoint that the run before, which failed on
\* a page of the same dump file, had issued
ResumesFromFailedRun ==
  /\ DumpNeverReplaced
  /\ run.checkpoint.defined
  /\ obs.before.failedAt > 0
  /\ obs.cpAtStart = obs.before.issuedCp

\* C6: over failed and resumed runs no candidate of a page of the dump is
\* stored twice; the store gets quotes only when every candidate of the
\* page has been answered, and then the list of the page as a whole; and a
\* run that fails on a page has stored no quote of that page
C6_NoQuoteStoredTwice ==
  [][/\ \A m, n \in 1..Len(db'.quotes) :
          db'.quotes[m].origin = db'.quotes[n].origin => m = n
     /\ db'.quotes # db.quotes =>
          /\ proc.pc = "cand" /\ run.j > Len(page.cands)
          /\ db'.quotes = db.quotes \o run.quotes
          /\ \A n \in 1..Len(run.quotes) : run.quotes[n].origin[1] = run.idx
     /\ obs'.outcome = "failed" =>
          \A n \in 1..Len(db'.quotes) : db'.quotes[n].origin[1] # run'.idx]_vars

\* The run before failed on a page after the first candidate of the page
\* had been kept, and stored nothing; this run, resumed from its checkpoint,
\* has worked on the page again and stored its quotes, each once
C6_Witness ==
  /\ ResumesFromFailedRun
  /\ obs.before.kept = 1
  /\ db.quotes # << >>
  /\ \A n \in 1..Len(db.quotes) : db.quotes[n].origin[1] = obs.before.failedAt
  /\ \E n \in 1..Len(db.quotes) : db.quotes[n].origin = <<obs.before.failedAt, 1>>
  /\ \E n \in 1..Len(db.quotes) : db.quotes[n].origin = <<obs.before.failedAt, 3>>
  /\ run.idx > obs.before.failedAt

\* C7: a page whose title the classifier answers with isHuman false adds no
\* author, no name and no quote, makes no call of the scorer, throws
\* nothing, writes no checkpoint, and the run goes on to the next page
NotHumanReply ==
  /\ proc.pc = "classify"
  /\ call'.calls = call.calls + 1
  /\ call'.response.k = "json"
  /\ ~call'.response.isHuman
C7_NotHumanPageIsSkipped ==
  [][NotHumanReply =>
       /\ db' = db
       /\ fsys' = fsys
       /\ proc'.pc = "page" /\ proc'.pending = proc.pending
       /\ run'.idx = run.idx + 1
       /\ run'.error = "none"
       /\ obs'.scored = obs.scored
       /\ obs'.outcome = "running"]_vars
C7_Witness ==
  /\ proc.pc = "page"
  /\ call.kind = "classifier" /\ call.status = "returned"
  /\ call.response.k = "json" /\ ~call.response.isHuman
  /\ call.value = Null
  /\ run.idx = 2
  /\ db.names = << >>

\* The step at which CzechParser.parse has the answer of parseQuote to a
\* candidate and goes on to the next one
CandidateDecided ==
  /\ proc.pc \in {"cand", "score"}
  /\ call'.status = "returned"
  /\ run'.j = run.j + 1
\* C8: a scored candidate is kept as a quote exactly when its score is above
\* 50 and there is a cleaned text that is not blank and has at most 500
\* characters
C8_KeptExactlyWhenGood ==
  [][CandidateDecided =>
       ((Len(run'.quotes) = Len(run.quotes) + 1) <=>
          /\ call'.value.score > ScoreThreshold
          /\ call'.value.cleanQuote.src = "clean"
          /\ ~call'.value.cleanQuote.blank
          /\ call'.value.cleanQuote.len <= MaxQuoteLength)]_vars

\* C9: a call of the classifier or of the scorer that fails twice and
\* succeeds at the third attempt returns what the third reply holds, after
\* 3 calls of the language model and 1 + 4 = 5 seconds of waiting
ThirdAttemptSucceeded == call.status = "returned" /\ call.calls = 3
C9_ThirdAttemptAfterFiveSeconds ==
  ThirdAttemptSucceeded =>
     /\ call.waited = 5
     /\ call.kind = "classifier" =>
          /\ call.response.k = "json"
          /\ call.value = IF call.response.isHuman
                          THEN [k |-> "name", englishName |-> call.response.englishName]
                          ELSE Null
     /\ call.kind = "scorer" =>
          \/ /\ call.response.k = "json"
             /\ call.value.score = call.response.score
             /\ call.value.cleanQuote = call.response.cleanQuote
          \/ /\ call.response.k = "length"
             /\ call.value.score = 0
C9_Witness ==
  /\ ThirdAttemptSucceeded
  /\ call.kind = "scorer"
  /\ call.response.k = "json"
  /\ call.value.score = ScoreThreshold + 1
  /\ call.waited = 5

\* C10: a call of the classifier or of the scorer calls the language model
\* at most 3 times, and when 3 attempts have failed it throws to its caller
\* and returns nothing
C10_ExhaustedCallThrows ==
  /\ call.calls <= MAX_RETRIES
  /\ call.i = MAX_RETRIES =>
       /\ call.status = "threw"
       /\ call.value = Null
       /\ proc.pc = "failing"
       /\ run.error = call.error
C10_Witness ==
  /\ call.kind = "classifier"
  /\ call.i = MAX_RETRIES
  /\ call.status = "threw"
  /\ call.error = "NoTextResponse"

\* A step of the page loop on a page that is a redirect or whose title
\* starts with a forbidden prefix
PassesExcludedPage ==
  /\ proc.pc = "page"
  /\ run.idx <= Len(pages)
  /\ run'.idx = run.idx + 1
  /\ run.idx \in obs'.visited
  /\ page.redirect \/ StringOf(page.title).ns \in forbiddenPagePrefixes
\* C11: a page that is a redirect or has a forbidden title prefix is passed
\* before the classifier is called: the step that works on it makes no call
\* of the classifier, of the scorer or of the store and goes to the next page
C11_ExcludedPageMakesNoCall ==
  [][(proc.pc = "page" /\ run.idx <= Len(pages) /\ obs'.visited # obs.visited
        /\ (page.redirect \/ StringOf(page.title).ns \in forbiddenPagePrefixes)) =>
       /\ PassesExcludedPage
       /\ proc'.pc = "page"
       /\ call' = NoCall
       /\ db' = db
       /\ obs'.classified = obs.classified
       /\ obs'.scored = obs.scored
       /\ obs'.persisted = obs.persisted
       /\ fsys' = fsys /\ proc'.pending = proc.pending]_vars
C11_Witness ==
  /\ proc.pc = "page"
  /\ run.idx = 3
  /\ pages[1] = PageAlias /\ pages[2] = PageCategory
  /\ obs.visited = {1, 2}
  /\ ~obs.classified /\ ~obs.scored /\ ~obs.persisted

\* C12: a run that finds a checkpoint whose checksum is not that of the dump
\* file ends with the error StaleCheckpointError thrown to its caller
C12_StaleCheckpointThrows ==
  StaleAtStart =>
     (proc.pc # "load" =>
        /\ proc.pc = "failing"
        /\ obs.outcome = "threw"
        /\ run.error = "StaleCheckpointError")

\* The run before failed on a page, its checkpoint file is left and the
\* dump is not marked as done
FailedRunLeftCheckpoint ==
  /\ obs.before.failedAt > 0
  /\ CheckpointExists
  /\ ~fsys.done
\* C13: an application start that finds the checkpoint of a failed run calls
\* loadQuotesFromWikiDump again, whether quotes are stored already or not:
\* the application is never serving with the checkpoint left and no run made
C13_RestartResumes ==
  (proc.pc = "serving" /\ FailedRunLeftCheckpoint) => InRun

\* C14: a candidate of more than 1000 characters gets score 0 with no call
\* of the language model and adds no quote; for a candidate of exactly 1000
\* characters (or fewer) parseQuote goes on to call the language model
\* (on every step at a candidate but a save of the language table, which is
\* no step of the run)
C14_TooLongCandidateIsNotSent ==
  [][(proc.pc = "cand" /\ run.j <= Len(page.cands)
        /\ db'.languages = db.languages) =>
       IF page.cands[run.j].len > MaxCandidateLength
       THEN /\ call'.kind = "scorer" /\ call'.calls = 0
            /\ call'.status = "returned"
            /\ call'.value.score = 0
            /\ run'.quotes = run.quotes
            /\ run'.j = run.j + 1
            /\ proc'.pc = "cand"
            /\ db' = db /\ obs'.scored = obs.scored
       ELSE /\ call'.kind = "scorer" /\ call'.status = "pending"
            /\ proc'.pc = "score"
            /\ run' = run]_vars
C14_Witness ==
  /\ proc.pc = "cand"
  /\ page = PageCapek
  /\ run.j = 3
  /\ Len(run.quotes) = 1
  /\ obs.scored
  /\ call.kind = "scorer" /\ call.calls = 0 /\ call.status = "returned"

\* A reply of the language model to parseQuote that is cut at the output
\* limit (finish_reason "length")
CutReply ==
  /\ proc.pc = "score"
  /\ call'.calls = call.calls + 1
  /\ call'.response.k = "length"
\* C15: on a reply cut at the output limit parseQuote returns score 0 at
\* once: no further attempt, no wait, no error, and the candidate adds no
\* quote
C15_CutReplyScoresZero ==
  [][CutReply =>
       /\ call'.status = "returned"
       /\ call'.value.score = 0
       /\ call'.i = call.i
       /\ call'.waited = call.waited
       /\ call'.error = "none"
       /\ run'.error = "none"
       /\ run'.quotes = run.quotes
       /\ run'.j = run.j + 1
       /\ proc'.pc = "cand"
       /\ proc'.pending = proc.pending
       /\ db' = db]_vars
C15_Witness ==
  /\ proc.pc = "cand"
  /\ call.kind = "scorer" /\ call.status = "returned"
  /\ call.response.k = "length"
  /\ call.calls = 2 /\ call.i = 1 /\ call.waited = 1
  /\ call.value.score = 0
  /\ run.j = 2 /\ run.quotes = << >>

\* A reply to the classifier or to the scorer that has no text or a text
\* that is not JSON, while attempts remain
UnusableReply ==
  /\ proc.pc \in {"classify", "score"}
  /\ call'.calls = call.calls + 1
  /\ call'.response.k \in {"null", "malformed"}
  /\ call.i < MAX_RETRIES - 1
\* C16: in both callers a reply without text or with a malformed text uses
\* up one attempt, is followed by the backoff wait, and the call is tried
\* again
C16_UnusableReplyIsRetried ==
  [][UnusableReply =>
       /\ call'.status = "pending"
       /\ call'.i = call.i + 1
       /\ call'.waited = call.waited + (call.i + 1) * (call.i + 1)
       /\ proc'.pc = proc.pc]_vars
\* The same for the scorer alone
ScorerUnusableReplyIsRetried ==
  [][(UnusableReply /\ proc.pc = "score") =>
       /\ call'.status = "pending"
       /\ call'.i = call.i + 1
       /\ call'.waited = call.waited + (call.i + 1) * (call.i + 1)
       /\ proc'.pc = proc.pc]_vars
\* and for the classifier on a reply without text
ClassifierEmptyReplyIsRetried ==
  [][(UnusableReply /\ proc.pc = "classify" /\ call'.response.k = "null") =>
       /\ call'.status = "pending"
       /\ call'.i = call.i + 1
       /\ proc'.pc = proc.pc]_vars

\* C17: whatever fails in the catch of the page loop (the read of the dump
\* for the checksum, the write of the checkpoint), the error that the caller
\* of loadQuotesFromWikiDump gets is the error of the page
C17_CallerGetsPageError ==
  obs.outcome = "failed" =>
     /\ proc.pc = "failing"
     /\ run.error = obs.pageError

\* C18: a run on a dump whose language has no content parser fails before
\* a page is visited: no page is worked on, the failure is not that of a
\* page, and no checkpoint is written
C18_MissingParserFailsBeforePages ==
  (InRun /\ LanguageOf(fsys.dump) \notin contentParsers) =>
     /\ obs.visited = {} /\ obs.skipped = {}
     /\ obs.outcome # "failed"
     /\ obs.issuedCp = CpAbsent
     /\ \A w \in proc.pending : w.file # "checkpoint"
     /\ fsys.cp = obs.cpAtStart

\* C19: there is at most one author of an English name in the store, over
\* any runs: parseAuthor saves an author only when the lookup by the name
\* finds none, and takes the author that is there otherwise (the step of
\* parseAuthor being any step at that place but a save of the language table)
C19_OneAuthorPerEnglishName ==
  [][/\ \A a, b \in 1..Len(db'.authors) :
          db'.authors[a] = db'.authors[b] => a = b
     /\ (proc.pc = "author" /\ db'.languages = db.languages) =>
          IF \E a \in 1..Len(db.authors) : db.authors[a] = run.name
          THEN /\ db'.authors = db.authors
               /\ db.authors[run'.author] = run.name
          ELSE /\ db'.authors = Append(db.authors, run.name)
               /\ run'.author = Len(db'.authors)]_vars
C19_Witness ==
  /\ run.checkpoint.defined
  /\ proc.pc = "cand"
  /\ page = PageCapek
  /\ db.authors = <<"Karel Capek">>
  /\ Len(db.names) = 1
  /\ obs.before.failedAt = run.idx
  /\ db.quotes = << >>

C21_CheckpointOnDiskAtExit ==
  [][(proc.pc = "failing" /\ obs.outcome = "failed" /\ proc'.pc = "down") =>
       fsys'.cp = obs.issuedCp]_vars

\* C22: a run that resumed from a checkpoint of this dump, the file being
\* as it was, does not come to the end of the page loop still in skipping
\* mode, having worked on no page
C22_ResumePageIsFound ==
  (obs.outcome = "success" /\ run.checkpoint.defined /\ DumpNeverReplaced) =>
     /\ ~run.skippingMode
     /\ obs.visited # {}

\* C23: a call that has failed at all three attempts has waited 1 + 4 = 5
\* seconds when it throws: no wait follows the last failed attempt
C23_NoWaitAfterLastAttempt ==
  (call.status = "threw" /\ call.i = MAX_RETRIES) => call.waited = 5

\* No two pages of the dump have the same title
UniqueTitles ==
  \A i, j \in 1..Len(pages) : pages[i].title = pages[j].title => i = j
\* The pages worked on by both runs
WorkedOnTwice == obs.visited \cap obs.before.visited

\* C24 (as stated): over a failed run and the run that resumes from its
\* checkpoint, the only page worked on in both runs is the checkpointed page
C24_OnlyCheckpointedPageTwice ==
  ResumesFromFailedRun =>
     \A i \in WorkedOnTwice : i = obs.before.failedAt
\* C24 (amended): the same, for a dump in which no two pages have the same
\* title
C24_OnlyCheckpointedPageTwiceUniqueTitles ==
  (ResumesFromFailedRun /\ UniqueTitles) =>
     \A i \in WorkedOnTwice : i = obs.before.failedAt
C24_Witness ==
  /\ ResumesFromFailedRun /\ UniqueTitles
  /\ Len(pages) = 3
  /\ obs.before.visited = {2}
  /\ obs.before.failedAt = 2
  /\ obs.skipped = {1}
  /\ obs.visited = {2, 3}
  /\ obs.classified


\* A write of the checkpoint is issued, done or still to be done
CheckpointWriteIssued ==
  \/ obs.issuedCp # CpAbsent
  \/ \E w \in proc.pending : w.file = "checkpoint"

\* The sidecars are as the call found them and no write is on its way
SidecarsUntouched ==
  /\ fsys.cp = obs.cpAtStart
  /\ fsys.done = obs.doneAtStart
  /\ proc.pending = {}

\* C25: a write of the checkpoint is issued only for a failure inside the
\* iteration of a page. A call that stops on the done marker or on a
\* checkpoint of another dump, or that fails before the iteration (a dump
\* that cannot be read or decoded, a checkpoint that cannot be read or
\* parsed, a language that is not in the store), leaves the sidecars as they
\* were; a call that comes to the end of the page loop, whether it returns or
\* throws at the removal of the checkpoint it started from, has passed every
\* page and issues no write of the checkpoint; and a language that is not in
\* the store lets no page be reached
C25_OnlyPageFailureWritesCheckpoint ==
  /\ CheckpointWriteIssued =>
       /\ obs.outcome = "failed"
       /\ obs.failedAt \in obs.visited
  /\ obs.outcome \in {"alreadyDone", "stale", "threw"} =>
       /\ SidecarsUntouched
       /\ obs.visited = {} /\ obs.skipped = {}
  /\ obs.outcome \in {"success", "threwAfterLoop"} =>
       /\ ~CheckpointWriteIssued
       /\ \A i \in 1..Len(pages) : i \in obs.visited \/ i \in obs.skipped
  /\ (InRun /\ LanguageOf(fsys.dump) \notin db.languages) =>
       /\ ~CheckpointWriteIssued
       /\ obs.visited = {}

\* A dump of a language that is not in the store, with the resumable
\* checkpoint of an earlier life: the call has thrown NotFoundError and the
\* checkpoint is as it was
C25_Witness ==
  /\ obs.outcome = "threw" /\ run.error = "NotFoundError"
  /\ LanguageOf(fsys.dump) \notin db.languages
  /\ run.checkpoint.defined
  /\ obs.cpAtStart.st = "full" /\ fsys.cp = obs.cpAtStart
  /\ ~CheckpointWriteIssued


\* The position in the dump of the page a checkpoint file names, 0 when no
\* page has that title
PositionNamedBy(f) ==
  LET hits == {i \in 1..Len(pages) : pages[i].title = JsonParse(f.lastPageTitle)}
  IN IF hits = {} THEN 0 ELSE CHOOSE i \in hits : \A h \in hits : i <= h

\* C26: on a dump of unique titles, a run that started from a checkpoint and
\* failed names, in the checkpoint it writes, a page at the same or a later
\* position than the page the checkpoint it started from names
C26_ResumePositionNeverMovesBack ==
  (UniqueTitles /\ run.checkpoint.defined /\ obs.issuedCp # CpAbsent) =>
     /\ PositionNamedBy(obs.cpAtStart) > 0
     /\ PositionNamedBy(obs.cpAtStart) <= PositionNamedBy(obs.issuedCp)
     /\ PositionNamedBy(obs.issuedCp) = obs.failedAt

\* The second of two failed runs: the first failed on page 2 and the second,
\* resumed from its checkpoint, failed on page 3
C26_Witness ==
  /\ UniqueTitles /\ Len(pages) = 3
  /\ obs.before.failedAt = 2 /\ obs.cpAtStart = obs.before.issuedCp
  /\ run.checkpoint.defined
  /\ obs.outcome = "failed" /\ obs.issuedCp # CpAbsent
  /\ PositionNamedBy(obs.cpAtStart) = 2
  /\ PositionNamedBy(obs.issuedCp) = 3


\* The state the protocol is to end in: the done marker and no checkpoint
DoneAndNoCheckpoint == fsys.done /\ fsys.cp = CpAbsent

\* The starts are used up and the application is down with no done marker
\* and with what a further run starts from: no checkpoint, or a checkpoint
\* of the dump that can be parsed
StartsUsedUpResumable ==
  /\ proc.pc = "down" /\ proc.boots = MaxBoots
  /\ ~fsys.done
  /\ \/ fsys.cp = CpAbsent
     \/ /\ fsys.cp.st = "full"
        /\ fsys.cp.wikiDumpChecksum = Checksum(fsys.dump)

\* C27: with a dump that is not replaced and writes that do not fail, the
\* application started again and again on a dump that had no sidecar ends with the done marker and no
\* checkpoint; as long as a run still fails on a page, it leaves what the
\* next run starts from (here: when the starts are used up before the done
\* marker is written, what is left is no checkpoint or a resumable one)
C27_EventuallyDone ==
  <>(proc.firstStartClean => (DoneAndNoCheckpoint \/ StartsUsedUpResumable))


\* C28: over the runs of an application that found neither sidecar at its
\* first start, the checkpoint and the done marker of the dump are never
\* there at the same time
C28_NeverCheckpointAndDone ==
  proc.firstStartClean => ~(CheckpointExists /\ fsys.done)

\* The first start failed on a page and left the checkpoint file created
\* and empty; the second start has thrown at JSON.parse of it: a checkpoint
\* file and no done marker
C28_Witness ==
  /\ proc.firstStartClean
  /\ proc.boots = 2 /\ obs.before.failedAt > 0
  /\ obs.outcome = "threw" /\ run.error = "SyntaxError"
  /\ CheckpointExists /\ ~fsys.done


\* C29: the text of every quote in the store is a clean quote the scorer
\* gave, not blank and of at most 500 characters, whatever the scorer
\* answered
C29_StoredTextIsCleanQuote ==
  \A n \in 1..Len(db.quotes) :
    /\ db.quotes[n].text.src = "clean"
    /\ ~db.quotes[n].text.blank
    /\ db.quotes[n].text.len >= 1
    /\ db.quotes[n].text.len <= MaxQuoteLength

\* C30: the score of every quote in the store is an integer from 51 to 100,
\* whatever the language model put in the score field
C30_StoredScoreInRange ==
  \A n \in 1..Len(db.quotes) :
    db.quotes[n].score \in (ScoreThreshold + 1)..100

====
